---- MODULE Spec2Model ----
(***************************************************************************)
(* A model of the wallet credit-scoring batch pipeline.                    *)
(*                                                                         *)
(*   main.py      load_data, calculate_entropy, calculate_wallet_features, *)
(*                generate_features, train_model, generate_scores,         *)
(*                generate_analysis, main                                  *)
(*   features.py  calculate_wallet_features, generate_all_features         *)
(*   model.py     predict_scores                                           *)
(*   analysis.py  generate_analysis_report                                 *)
(*                                                                         *)
(* Three specifications share the variables:                               *)
(*   Spec       one run of main() on a transaction file                    *)
(*   SpecFeat   the two feature generators applied to a transaction table  *)
(*   SpecScore  the two score mappings and the report's score ranges       *)
(*              applied to a vector of raw anomaly scores                  *)
(*                                                                         *)
(* Floating-point values are kept exact: a quotient n / d is the record    *)
(* [num |-> n, den |-> d], and 0 / 0 is NaN as numpy computes it.          *)
(***************************************************************************)
EXTENDS Integers, Sequences, FiniteSets, TLC

VARIABLES
    pc,           \* the statement the run is at
    file,         \* the input file: whether it exists, and its lines
    ld,           \* what load_data did: reads of the file, fallback, parsed list
    df,           \* the transaction table
    wf,           \* per wallet: what calculate_wallet_features returned
    features_df,  \* the feature table
    model,        \* the fitted model and scaler (their feature names)
    raw_scores,   \* decision_function's output, one per row
    scores,       \* the credit scores, one per row
    dirs,         \* directories created
    files,        \* files written, by name
    stdout,       \* pipeline status lines printed by main
    exc,          \* the exception in flight inside main's try block
    propagated,   \* the exception main() raised to its caller
    log,          \* stages completed, in order
    report        \* generate_analysis_report: score_range column and table

vars == << pc, file, ld, df, wf, features_df, model, raw_scores, scores,
           dirs, files, stdout, exc, propagated, log, report >>

(***************************************************************************)
(* Bounds of the model.                                                    *)
(***************************************************************************)
MaxLines == 3      \* lines of the input file
MaxTx == 2         \* rows of a transaction table (SpecFeat)
MaxWallets == 3    \* length of a raw score vector (SpecScore)
MaxRaw == 2        \* raw anomaly scores range over -1..MaxRaw

(***************************************************************************)
(* Cell values.  Every value carries its type, so that a column may hold   *)
(* values of several types, as a pandas object column does.                *)
(***************************************************************************)
NaN == [t |-> "nan"]
StrV(s) == [t |-> "str", v |-> s]
TextV(w) == [t |-> "text", v |-> w]      \* a string as a sequence of words
IntV(n) == [t |-> "int", v |-> n]
DictV(d) == [t |-> "dict", v |-> d]
Frac(n, d) == [t |-> "frac", num |-> n, den |-> d]
NoKeys == [k \in {} |-> NaN]            \* the empty dictionary

RECURSIVE SeqSum(_)
SeqSum(s) == IF s = << >> THEN 0 ELSE Head(s) + SeqSum(Tail(s))

RECURSIVE SeqMax(_)
SeqMax(s) == IF Len(s) = 1 THEN s[1]
             ELSE LET m == SeqMax(Tail(s)) IN IF s[1] >= m THEN s[1] ELSE m

RECURSIVE SeqMin(_)
SeqMin(s) == IF Len(s) = 1 THEN s[1]
             ELSE LET m == SeqMin(Tail(s)) IN IF s[1] <= m THEN s[1] ELSE m

\* sorted(xs): ascending, duplicates kept
RECURSIVE Sorted(_)
Sorted(s) ==
    IF s = << >> THEN << >>
    ELSE LET m == SeqMin(s)
             i == CHOOSE j \in 1..Len(s) : s[j] = m
         IN  <<m>> \o Sorted(SubSeq(s, 1, i - 1) \o SubSeq(s, i + 1, Len(s)))

(***************************************************************************)
(* The input file.  A line is one of                                       *)
(*     [            the opening of a JSON array                            *)
(*     ]            its closing                                            *)
(*     {...}        one transaction object                                 *)
(*     {...},       one transaction object followed by a comma             *)
(* The transactions follow the Aave V2 export: userWallet, action,         *)
(* actionData (amount, assetPriceUSD), timestamp, txHash.                  *)
(***************************************************************************)
TxA == [userWallet |-> StrV("w1"), action |-> TextV(<<"deposit">>),
        actionData |-> DictV([amount |-> 2, assetPriceUSD |-> 3]),
        timestamp |-> IntV(1), txHash |-> StrV("h1")]
TxB == [userWallet |-> StrV("w2"), action |-> TextV(<<"borrow">>),
        actionData |-> DictV([note |-> 1]),
        timestamp |-> IntV(3), txHash |-> StrV("h2")]
TxC == [userWallet |-> StrV("w2"), action |-> TextV(<<"repay">>),
        actionData |-> DictV([amount |-> 1]),
        timestamp |-> StrV("bad"), txHash |-> StrV("h2")]
FileTx == {TxA, TxB, TxC}

Lines == {[k |-> "open"], [k |-> "close"]}
           \cup {[k |-> "obj", v |-> tx] : tx \in FileTx}
           \cup {[k |-> "objc", v |-> tx] : tx \in FileTx}

Files == {[exists |-> FALSE, lines |-> << >>]}
           \cup {[exists |-> TRUE, lines |-> l] :
                   l \in UNION {[1..n -> Lines] : n \in 0..MaxLines}}

\* json.loads(line): the parsed value, or JSONDecodeError
JsonLoads(line) ==
    IF line.k = "obj" THEN [ok |-> TRUE, value |-> line.v]
    ELSE [ok |-> FALSE, value |-> << >>]

\* json.load(f) on the whole file: one JSON document, or JSONDecodeError.
\* A document is one object, or an array of objects separated by commas.
JsonLoad(lines) ==
    LET n == Len(lines) IN
    IF n = 1 /\ lines[1].k = "obj"
    THEN [ok |-> TRUE, kind |-> "dict", value |-> lines[1].v]
    ELSE IF /\ n >= 2
            /\ lines[1].k = "open"
            /\ lines[n].k = "close"
            /\ \A i \in 2..(n - 2) : lines[i].k = "objc"
            /\ n > 2 => lines[n - 1].k = "obj"
    THEN [ok |-> TRUE, kind |-> "list",
          value |-> [i \in 1..(n - 2) |-> lines[i + 1].v]]
    ELSE [ok |-> FALSE, kind |-> "error", value |-> << >>]

(***************************************************************************)
(* pandas.DataFrame: the set of columns and the rows, each row a function  *)
(* from the columns to cells.                                              *)
(***************************************************************************)
EmptyFrame == [columns |-> {}, rows |-> << >>]

\* pd.DataFrame(list of dicts): the columns are the union of the keys and
\* a key a record lacks is NaN in its row
DataFrame(data) ==
    LET cols == UNION {DOMAIN data[i] : i \in 1..Len(data)} IN
    [columns |-> cols,
     rows |-> [i \in 1..Len(data) |->
                 [c \in cols |-> IF c \in DOMAIN data[i] THEN data[i][c] ELSE NaN]]]

KeyOrder == <<"amount", "assetPriceUSD", "note">>

\* pd.DataFrame(dict): the index is the keys of the dict-valued entries,
\* scalars are broadcast over it; with scalars only it raises ValueError
DataFrameOfDict(d) ==
    LET nested == {c \in DOMAIN d : d[c].t = "dict"}
        keys == UNION {DOMAIN d[c].v : c \in nested}
        index == SelectSeq(KeyOrder, LAMBDA k : k \in keys)
    IN  IF nested = {}
        THEN [ok |-> FALSE, exc |-> "ValueError", df |-> EmptyFrame]
        ELSE [ok |-> TRUE, exc |-> "None",
              df |-> [columns |-> DOMAIN d,
                      rows |-> [i \in 1..Len(index) |->
                          [c \in DOMAIN d |->
                              IF d[c].t = "dict"
                              THEN IF index[i] \in DOMAIN d[c].v
                                   THEN IntV(d[c].v[index[i]]) ELSE NaN
                              ELSE d[c]]]]]

\* faulty variant: the loop ends at the first line that is not valid JSON
FallbackLoop_Break(lines, i, data) ==
    LET bad == {j \in 1..Len(lines) : ~JsonLoads(lines[j]).ok}
        stop == IF bad = {} THEN Len(lines) + 1
                ELSE CHOOSE j \in bad : \A k \in bad : j <= k
    IN  [j \in 1..(stop - 1) |-> lines[j].v]

\* the line-by-line fallback of load_data: lines 37-43
RECURSIVE FallbackLoop(_, _, _)
FallbackLoop(lines, i, data) ==
    IF i > Len(lines) THEN data
    ELSE LET p == JsonLoads(lines[i]) IN
         IF p.ok THEN FallbackLoop(lines, i + 1, Append(data, p.value))
         ELSE FallbackLoop(lines, i + 1, data)

\* load_data(filepath): the exception raised ("None" when it returns), the
\* number of times the file was opened and read, whether the fallback was
\* entered, the parsed list and the table returned
load_data(f) ==
    IF ~f.exists
    THEN [exc |-> "FileNotFoundError", reads |-> 0, fallback |-> FALSE,
          data |-> << >>, df |-> EmptyFrame]
    ELSE LET doc == JsonLoad(f.lines) IN
         IF doc.ok
         THEN IF doc.kind = "list"
              THEN [exc |-> "None", reads |-> 1, fallback |-> FALSE,
                    data |-> doc.value, df |-> DataFrame(doc.value)]
              ELSE LET r == DataFrameOfDict(doc.value) IN
                   [exc |-> r.exc, reads |-> 1, fallback |-> FALSE,
                    data |-> <<doc.value>>, df |-> r.df]
         ELSE LET data == FallbackLoop(f.lines, 1, << >>) IN
              [exc |-> "None", reads |-> 2, fallback |-> TRUE,
               data |-> data, df |-> DataFrame(data)]

(***************************************************************************)
(* Strings.  A string is a sequence of words; str.lower() lowers each      *)
(* word, str.contains(a) is true when the word a occurs in it.             *)
(***************************************************************************)
Lower(w) ==
    CASE w = "Deposit" -> "deposit"
      [] w = "Borrow" -> "borrow"
      [] OTHER -> w

LowerText(s) == [i \in 1..Len(s) |-> Lower(s[i])]

\* Series.str.lower().str.contains(action) on one cell: NaN stays NaN
StrContains(cell, action) ==
    IF cell.t = "text"
    THEN \E i \in 1..Len(cell.v) : LowerText(cell.v)[i] = action
    ELSE FALSE

\* Series.str.lower() == word on one cell
StrEquals(cell, word) == cell.t = "text" /\ LowerText(cell.v) = <<word>>

\* next((col for col in candidates if col in columns), None)
RECURSIVE FirstIn(_, _)
FirstIn(candidates, columns) ==
    IF candidates = << >> THEN "None"
    ELSE IF Head(candidates) \in columns THEN Head(candidates)
    ELSE FirstIn(Tail(candidates), columns)

(***************************************************************************)
(* main.py: calculate_entropy                                              *)
(***************************************************************************)
Bins == 10

\* np.diff(sorted(timestamps))
Deltas(ts) ==
    LET s == Sorted(ts) IN [i \in 1..(Len(s) - 1) |-> s[i + 1] - s[i]]

\* np.histogram(deltas, bins=10)[0]: ten equal bins over [min, max], the
\* maximum in the last one; a single value sits in the middle of
\* [min - 0.5, max + 0.5]
BinOf(v, mn, mx) ==
    IF mn = mx THEN Bins \div 2 + 1
    ELSE IF v = mx THEN Bins
    ELSE ((v - mn) * Bins) \div (mx - mn) + 1

HistogramOver(deltas, mn, mx) ==
    [b \in 1..Bins |-> Cardinality({i \in 1..Len(deltas) : BinOf(deltas[i], mn, mx) = b})]

Histogram(deltas) == HistogramOver(deltas, SeqMin(deltas), SeqMax(deltas))

\* entropy(hist / hist.sum()) is kept as the histogram it is computed from
calculate_entropy(timestamps) ==
    IF Len(timestamps) < 2 THEN IntV(0)
    ELSE [t |-> "entropy", hist |-> Histogram(Deltas(timestamps))]

(***************************************************************************)
(* main.py: calculate_wallet_features                                      *)
(***************************************************************************)
\* float(x['amount']) * float(x.get('assetPriceUSD', 1)) raises unless x is
\* a dict with an amount
HasAmount(x) == x.t = "dict" /\ "amount" \in DOMAIN x.v

AmountUSD(x) ==
    x.v["amount"] * (IF "assetPriceUSD" \in DOMAIN x.v THEN x.v["assetPriceUSD"] ELSE 1)

\* lines 54-65: the three volume features, or none of them when the
\* conversion of any row raises (the exception is caught and printed)
AmountsConvert(columns, txs) ==
    "actionData" \in columns /\ \A i \in 1..Len(txs) : HasAmount(txs[i]["actionData"])

VolumeOf(amounts) ==
    [total_usd_volume |-> IntV(SeqSum(amounts)),
     avg_usd_amount |-> Frac(SeqSum(amounts), Len(amounts)),
     max_usd_amount |-> IntV(SeqMax(amounts))]

VolumeFeatures(columns, txs) ==
    IF AmountsConvert(columns, txs)
    THEN VolumeOf([i \in 1..Len(txs) |-> AmountUSD(txs[i]["actionData"])])
    ELSE NoKeys

\* pd.to_datetime raises on a value that is no date
Parses(cell) == cell.t = "int"

\* lines 68-77
TemporalOf(timestamps) ==
    [first_activity |-> IntV(SeqMin(timestamps)),
     last_activity |-> IntV(SeqMax(timestamps)),
     tx_entropy |-> calculate_entropy(timestamps)]

TimestampCol(columns) == FirstIn(<<"timestamp", "block_timestamp", "createdAt">>, columns)

TemporalFeatures(columns, txs) ==
    IF TimestampCol(columns) = "None" THEN NoKeys
    ELSE TemporalOf([i \in 1..Len(txs) |-> txs[i][TimestampCol(columns)].v])

ActionCount(txs, col, action) ==
    Cardinality({i \in 1..Len(txs) : StrContains(txs[i][col], action)})

\* the key f'{action}_count' of each action
CountKeys == {"deposit_count", "borrow_count", "repay_count", "redeem_count",
              "liquidation_count"}

ActionOfKey(k) ==
    CASE k = "deposit_count" -> "deposit"
      [] k = "borrow_count" -> "borrow"
      [] k = "repay_count" -> "repay"
      [] k = "redeem_count" -> "redeem"
      [] k = "liquidation_count" -> "liquidation"

Micro == 1000000    \* the 1e-6 added to a denominator, as its reciprocal

\* lines 80-92
\* faulty variant: only the actions that occur get a count
ActionCounts_Seen(txs, action_col) ==
    [k \in {c \in CountKeys : ActionCount(txs, action_col, ActionOfKey(c)) > 0} |->
        IntV(ActionCount(txs, action_col, ActionOfKey(k)))]

\* lines 84-85
ActionCounts(txs, action_col) ==
    [k \in CountKeys |-> IntV(ActionCount(txs, action_col, ActionOfKey(k)))]

\* features.get(key, 0)
Get(features, key) == IF key \in DOMAIN features THEN features[key].v ELSE 0

\* lines 88-92
WithBorrowRatio(counts, has_volume) ==
    IF has_volume
    THEN counts @@ [borrow_ratio |->
             Frac(Get(counts, "borrow_count") * Micro,
                  Get(counts, "deposit_count") * Micro + 1)]
    ELSE counts

ActionCol(columns) == FirstIn(<<"action", "type">>, columns)

ActionFeatures(columns, txs, has_volume) ==
    IF ActionCol(columns) = "None" THEN NoKeys
    ELSE WithBorrowRatio(ActionCounts(txs, ActionCol(columns)), has_volume)

\* lines 95-96
SenderFeatures(columns, txs) ==
    IF "txHash" \in columns
    THEN [unique_tx_senders |->
            IntV(Cardinality({txs[i]["txHash"] : i \in 1..Len(txs)} \ {NaN}))]
    ELSE NoKeys

\* calculate_wallet_features(wallet_transactions) of main.py: the dictionary
\* returned, or the exception raised
calculate_wallet_features(columns, txs) ==
    IF /\ TimestampCol(columns) # "None"
       /\ \E i \in 1..Len(txs) : ~Parses(txs[i][TimestampCol(columns)])
    THEN [ok |-> FALSE, exc |-> "ValueError", features |-> NoKeys]
    ELSE [ok |-> TRUE, exc |-> "None",
          features |-> [total_txs |-> IntV(Len(txs))]
                         @@ VolumeFeatures(columns, txs)
                         @@ TemporalFeatures(columns, txs)
                         @@ ActionFeatures(columns, txs, AmountsConvert(columns, txs))
                         @@ SenderFeatures(columns, txs)]

(***************************************************************************)
(* main.py: generate_features                                              *)
(***************************************************************************)
WalletOrder == <<"w1", "w2">>

\* transactions_df.groupby(col): the groups in key order, rows in table
\* order; rows whose key is NaN belong to no group
GroupKeys(frame, col) ==
    SelectSeq(WalletOrder, LAMBDA w : \E i \in 1..Len(frame.rows) : frame.rows[i][col] = StrV(w))

Group(frame, col, w) == SelectSeq(frame.rows, LAMBDA r : r[col] = StrV(w))

SecondsPerDay == 86400

\* lines 126-130
WithWalletAge(frame) ==
    IF {"first_activity", "last_activity"} \subseteq frame.columns
    THEN [columns |-> frame.columns \cup {"wallet_age_days"},
          rows |-> [i \in 1..Len(frame.rows) |->
              frame.rows[i] @@ [wallet_age_days |->
                  IF frame.rows[i]["first_activity"] = NaN \/ frame.rows[i]["last_activity"] = NaN
                  THEN NaN
                  ELSE Frac(frame.rows[i]["last_activity"].v - frame.rows[i]["first_activity"].v,
                            SecondsPerDay)]]]
    ELSE frame

\* faulty variant: a wallet whose processing raised is appended all the same
Kept_All(results) == results

\* the wallets whose features were appended: lines 113-121
Kept(results) == SelectSeq(results, LAMBDA r : r.result.ok)

\* lines 115-118 and 123
FeatureRows(kept) ==
    [i \in 1..Len(kept) |-> [wallet |-> StrV(kept[i].wallet)] @@ kept[i].result.features]

\* lines 132-134: features_df.describe() raises on a table without columns
Described(results, table) ==
    IF table.columns = {}
    THEN [exc |-> "ValueError", wf |-> results, features_df |-> table]
    ELSE [exc |-> "None", wf |-> results, features_df |-> table]

\* lines 113-121: per wallet, in key order, what calculate_wallet_features gave
WalletResults(frame, wallet_col, keys) ==
    [i \in 1..Len(keys) |->
        [wallet |-> keys[i],
         result |-> calculate_wallet_features(frame.columns, Group(frame, wallet_col, keys[i]))]]

FeatureTable(results) ==
    Described(results, WithWalletAge(DataFrame(FeatureRows(Kept(results)))))

\* generate_features(transactions_df): the exception raised ("None" when it
\* returns), what calculate_wallet_features gave per wallet, the table
generate_features(frame) ==
    LET wallet_col == FirstIn(<<"userWallet", "user", "address", "userId">>, frame.columns) IN
    IF wallet_col = "None"
    THEN [exc |-> "KeyError", wf |-> << >>, features_df |-> EmptyFrame]
    ELSE FeatureTable(WalletResults(frame, wallet_col, GroupKeys(frame, wallet_col)))

(***************************************************************************)
(* features.py: calculate_wallet_features, generate_all_features           *)
(***************************************************************************)
\* lines 33-34: the rows whose type equals 'deposit' / 'borrow'
TypeRows(txs, word) == {i \in 1..Len(txs) : StrEquals(txs[i]["type"], word)}

\* lines 11-13: the rows counted under an action
CountedRows(txs, action) == {i \in 1..Len(txs) : StrContains(txs[i]["type"], action)}

\* deposits['amount_usd'].sum(): NaN is skipped
AmountSum(txs, rows) ==
    SeqSum([i \in 1..Len(txs) |->
               IF i \in rows /\ txs[i]["amount_usd"].t = "int"
               THEN txs[i]["amount_usd"].v ELSE 0])

\* lines 16-31 of features.py
LibTemporal(n, timestamps, time_deltas) ==
    (IF n > 0
     THEN [first_activity |-> IntV(SeqMin(timestamps)),
           last_activity |-> IntV(SeqMax(timestamps))]
     ELSE [first_activity |-> NaN, last_activity |-> NaN])
    @@ (IF n > 1
        THEN [time_between_txs_mean |-> Frac(SeqSum(time_deltas), Len(time_deltas)),
              time_between_txs_std |-> [t |-> "std", of |-> time_deltas]]
        ELSE [time_between_txs_mean |-> IntV(0), time_between_txs_std |-> IntV(0)])

\* lines 33-43 of features.py
LibFinancial(total_deposit_value, total_borrow_value) ==
    [total_deposit_value |-> IntV(total_deposit_value),
     total_borrow_value |-> IntV(total_borrow_value),
     borrow_to_deposit_ratio |->
         Frac(total_borrow_value * Micro, total_deposit_value * Micro + 1)]

LibTimestamps(txs) == [i \in 1..Len(txs) |-> txs[i]["block_timestamp"].v]

\* calculate_wallet_features(wallet_transactions) of features.py
lib_calculate_wallet_features(columns, txs) ==
    IF ~({"type", "block_timestamp", "amount_usd"} \subseteq columns)
    THEN [ok |-> FALSE, exc |-> "KeyError", features |-> NoKeys]
    ELSE IF \E i \in 1..Len(txs) : ~Parses(txs[i]["block_timestamp"])
    THEN [ok |-> FALSE, exc |-> "ValueError", features |-> NoKeys]
    ELSE [ok |-> TRUE, exc |-> "None",
          features |->
             [total_txs |-> IntV(Len(txs))]
             @@ [k \in CountKeys |-> IntV(Cardinality(CountedRows(txs, ActionOfKey(k))))]
             @@ LibTemporal(Len(txs), LibTimestamps(txs), Deltas(LibTimestamps(txs)))
             @@ LibFinancial(AmountSum(txs, TypeRows(txs, "deposit")),
                             AmountSum(txs, TypeRows(txs, "borrow")))]

LibResults(frame, keys) ==
    [i \in 1..Len(keys) |->
        [wallet |-> keys[i],
         result |-> lib_calculate_wallet_features(frame.columns, Group(frame, "user", keys[i]))]]

\* lines 54-59 of features.py: an exception of any wallet ends the loop and
\* is raised to the caller
LibTable(results) ==
    IF \E i \in 1..Len(results) : ~results[i].result.ok
    THEN LET first == CHOOSE i \in 1..Len(results) :
                         /\ ~results[i].result.ok
                         /\ \A j \in 1..(i - 1) : results[j].result.ok
         IN  [exc |-> results[first].result.exc,
              wf |-> SubSeq(results, 1, first), features_df |-> EmptyFrame]
    ELSE [exc |-> "None", wf |-> results,
          features_df |-> DataFrame([i \in 1..Len(results) |->
              results[i].result.features @@ [wallet |-> StrV(results[i].wallet)]])]

\* generate_all_features(transactions_df)
generate_all_features(frame) ==
    IF "user" \notin frame.columns
    THEN [exc |-> "KeyError", wf |-> << >>, features_df |-> EmptyFrame]
    ELSE LibTable(LibResults(frame, GroupKeys(frame, "user")))

(***************************************************************************)
(* main.py: train_model.  The isolation forest is a library: the model     *)
(* keeps what the pipeline reads of it, the feature names it was fitted    *)
(* on; its decision_function may return any vector of raw scores.          *)
(***************************************************************************)
ExcludeCols == {"wallet", "first_activity", "last_activity"}

\* lines 140-142: every remaining column is numeric
numeric_cols(frame) == frame.columns \ ExcludeCols

Unfitted == [fitted |-> FALSE, feature_names |-> {}]

RawScores == (0 - 1)..MaxRaw

(***************************************************************************)
(* Score mapping: main.py generate_scores, model.py predict_scores         *)
(***************************************************************************)
\* numpy's float division: x / 0 is inf or -inf, 0 / 0 is nan
Divide(n, d) ==
    IF d # 0 THEN Frac(n, d)
    ELSE IF n = 0 THEN NaN
    ELSE IF n > 0 THEN [t |-> "inf"] ELSE [t |-> "-inf"]

\* np.clip(x, lo, hi): nan stays nan
Clip(x, lo, hi) ==
    CASE x.t = "nan" -> x
      [] x.t = "inf" -> IntV(hi)
      [] x.t = "-inf" -> IntV(lo)
      [] x.t = "frac" -> IF x.num < lo * x.den THEN IntV(lo)
                         ELSE IF x.num > hi * x.den THEN IntV(hi)
                         ELSE x

\* faulty variant: the minimum is not subtracted
generate_scores_Unshifted(raw) ==
    [i \in 1..Len(raw) |->
        Clip(Divide(1000 * raw[i], SeqMax(raw) - SeqMin(raw)), 0, 1000)]

\* main.py lines 168-171
generate_scores(raw) ==
    LET scaled == [i \in 1..Len(raw) |->
                     Divide(1000 * (raw[i] - SeqMin(raw)), SeqMax(raw) - SeqMin(raw))]
    IN  [i \in 1..Len(raw) |-> Clip(scaled[i], 0, 1000)]

\* model.py lines 33-39
predict_scores(raw) ==
    LET min_score == SeqMin(raw)
        max_score == SeqMax(raw)
    IN  [i \in 1..Len(raw) |-> Divide(1000 * (raw[i] - min_score), max_score - min_score)]

\* a score as a number: IsNumber, and comparisons of two numbers
IsNumber(x) == x.t \in {"frac", "int"}
Num(x) == IF x.t = "int" THEN x.v ELSE x.num
Den(x) == IF x.t = "int" THEN 1 ELSE x.den
Leq(x, y) == Num(x) * Den(y) <= Num(y) * Den(x)
Less(x, y) == Num(x) * Den(y) < Num(y) * Den(x)

(***************************************************************************)
(* analysis.py: generate_analysis_report                                   *)
(***************************************************************************)
\* lines 11-12: bins = list(range(0, 1100, 100)) and the ten labels
bins == [i \in 1..11 |-> 100 * (i - 1)]
labels == [i \in 1..10 |-> [t |-> "label", lo |-> 100 * (i - 1), hi |-> 100 * (i - 1) + 99]]

\* pd.cut(x, bins, labels): the bins are open on the left and closed on the
\* right; a value in none of them, or nan, gets NaN
Cut(x) ==
    IF IsNumber(x) /\ \E i \in 1..10 : Less(IntV(bins[i]), x) /\ Leq(x, IntV(bins[i + 1]))
    THEN labels[CHOOSE i \in 1..10 : Less(IntV(bins[i]), x) /\ Leq(x, IntV(bins[i + 1]))]
    ELSE NaN

NoReport == [done |-> FALSE, score_range |-> << >>, stats |-> << >>]

\* lines 13 and 29: the score_range column and the size of each range
generate_analysis_report(credit_score) ==
    LET score_range == [i \in 1..Len(credit_score) |-> Cut(credit_score[i])] IN
    [done |-> TRUE,
     score_range |-> score_range,
     stats |-> [i \in 1..10 |->
                  Cardinality({w \in 1..Len(score_range) : score_range[w] = labels[i]})]]

(***************************************************************************)
(* main.py: main().  One action per statement of the try block; a          *)
(* statement that raises hands the exception to the except clause.         *)
(***************************************************************************)
NoLoad == [exc |-> "None", reads |-> 0, fallback |-> FALSE, data |-> << >>]

\* faulty variant: the report is generated before the CSV is written
NextStage_ReportFirst(stage) ==
    CASE stage = "load_data" -> "generate_features"
      [] stage = "generate_features" -> "train_model"
      [] stage = "train_model" -> "generate_scores"
      [] stage = "generate_scores" -> "makedirs"
      [] stage = "makedirs" -> "generate_analysis"
      [] stage = "generate_analysis" -> "to_csv"
      [] stage = "to_csv" -> "print_completed"
      [] stage = "print_completed" -> "done"

\* the statement main() runs after `stage` returns: lines 205-221
NextStage(stage) ==
    CASE stage = "load_data" -> "generate_features"
      [] stage = "generate_features" -> "train_model"
      [] stage = "train_model" -> "generate_scores"
      [] stage = "generate_scores" -> "makedirs"
      [] stage = "makedirs" -> "to_csv"
      [] stage = "to_csv" -> "generate_analysis"
      [] stage = "generate_analysis" -> "print_completed"
      [] stage = "print_completed" -> "done"

\* where control goes when a statement of the try block raises: line 223
OnRaise(stage) == "except"

Returns(stage) ==
    /\ pc' = NextStage(stage)
    /\ log' = Append(log, stage)
    /\ exc' = exc

Raises(stage, e) ==
    /\ pc' = OnRaise(stage)
    /\ log' = log
    /\ exc' = e

Write(fs, name, content) == [n \in DOMAIN fs \cup {name} |-> IF n = name THEN content ELSE fs[n]]

\* line 205
LoadData ==
    /\ pc = "load_data"
    /\ LET r == load_data(file) IN
       /\ ld' = [exc |-> r.exc, reads |-> r.reads, fallback |-> r.fallback, data |-> r.data]
       /\ IF r.exc = "None"
          THEN df' = r.df /\ Returns("load_data")
          ELSE df' = df /\ Raises("load_data", r.exc)
    /\ UNCHANGED << file, wf, features_df, model, raw_scores, scores, dirs, files,
                    stdout, propagated, report >>

\* line 206
GenerateFeatures ==
    /\ pc = "generate_features"
    /\ LET r == generate_features(df) IN
       /\ wf' = r.wf
       /\ IF r.exc = "None"
          THEN features_df' = r.features_df /\ Returns("generate_features")
          ELSE features_df' = features_df /\ Raises("generate_features", r.exc)
    /\ UNCHANGED << file, ld, df, model, raw_scores, scores, dirs, files,
                    stdout, propagated, report >>

\* line 207: the fit may raise; so may each write of an artifact, after the
\* ones before it were done
TrainModel ==
    /\ pc = "train_model"
    /\ \E outcome \in {"fit_raises", "makedirs_raises", "dump_model_raises",
                       "dump_scaler_raises", "returns"} :
         LET names == numeric_cols(features_df)
             d1 == dirs \cup {"src/models"}
             f1 == Write(files, "credit_model.pkl", << >>)
             f2 == Write(f1, "scaler.pkl", << >>)
         IN  CASE outcome = "fit_raises" ->
                    /\ Raises("train_model", "ValueError")
                    /\ UNCHANGED << model, dirs, files >>
               [] outcome = "makedirs_raises" ->
                    /\ Raises("train_model", "OSError")
                    /\ UNCHANGED << model, dirs, files >>
               [] outcome = "dump_model_raises" ->
                    /\ Raises("train_model", "OSError")
                    /\ dirs' = d1
                    /\ UNCHANGED << model, files >>
               [] outcome = "dump_scaler_raises" ->
                    /\ Raises("train_model", "OSError")
                    /\ dirs' = d1 /\ files' = f1
                    /\ UNCHANGED model
               [] outcome = "returns" ->
                    /\ Returns("train_model")
                    /\ model' = [fitted |-> TRUE, feature_names |-> names]
                    /\ dirs' = d1 /\ files' = f2
    /\ UNCHANGED << file, ld, df, wf, features_df, raw_scores, scores,
                    stdout, propagated, report >>

\* line 208: decision_function returns one raw score per row
GenerateScores ==
    /\ pc = "generate_scores"
    /\ \/ /\ Raises("generate_scores", "MemoryError")
          /\ UNCHANGED << raw_scores, scores >>
       \/ \E raw \in [1..Len(features_df.rows) -> RawScores] :
            /\ raw_scores' = raw
            /\ scores' = generate_scores(raw)
            /\ Returns("generate_scores")
    /\ UNCHANGED << file, ld, df, wf, features_df, model, dirs, files,
                    stdout, propagated, report >>

\* line 211
MakeDirs ==
    /\ pc = "makedirs"
    /\ \/ /\ Raises("makedirs", "OSError")
          /\ UNCHANGED dirs
       \/ /\ dirs' = dirs \cup {"src/outputs"}
          /\ Returns("makedirs")
    /\ UNCHANGED << file, ld, df, wf, features_df, model, raw_scores, scores, files,
                    stdout, propagated, report >>

\* lines 212-215: the rows of wallet_scores.csv
CsvRows(frame, sc) ==
    [i \in 1..Len(frame.rows) |-> [wallet |-> frame.rows[i]["wallet"], credit_score |-> sc[i]]]

\* a write that raises leaves no file, or a file with the rows written so far
WriteCsv ==
    /\ pc = "to_csv"
    /\ LET rows == CsvRows(features_df, scores) IN
       \/ /\ Raises("to_csv", "OSError")
          /\ \/ UNCHANGED files
             \/ \E k \in 0..(Len(rows) - 1) :
                  files' = Write(files, "wallet_scores.csv", SubSeq(rows, 1, k))
       \/ /\ files' = Write(files, "wallet_scores.csv", rows)
          /\ Returns("to_csv")
    /\ UNCHANGED << file, ld, df, wf, features_df, model, raw_scores, scores, dirs,
                    stdout, propagated, report >>

\* line 217, generate_analysis: the plot (line 181), then the report
\* (lines 188-200)
GenerateAnalysis ==
    /\ pc = "generate_analysis"
    /\ LET plotted == Write(files, "score_distribution.png", << >>) IN
       \/ /\ Raises("generate_analysis", "OSError")
          /\ UNCHANGED files
       \/ /\ Raises("generate_analysis", "OSError")
          /\ files' = plotted
       \/ /\ files' = Write(plotted, "analysis.md", << >>)
          /\ Returns("generate_analysis")
    /\ UNCHANGED << file, ld, df, wf, features_df, model, raw_scores, scores, dirs,
                    stdout, propagated, report >>

\* lines 219-221
PrintCompleted ==
    /\ pc = "print_completed"
    /\ stdout' = Append(stdout, [msg |-> "Pipeline completed!", e |-> "None"])
    /\ Returns("print_completed")
    /\ UNCHANGED << file, ld, df, wf, features_df, model, raw_scores, scores, dirs,
                    files, propagated, report >>

\* faulty variant: the except clause prints and returns
Reraise_Swallowed(e) == "None"

\* what the except clause raises to the caller of main(): line 225
Reraise(e) == e

\* lines 223-225
ExceptHandler ==
    /\ pc = "except"
    /\ stdout' = Append(stdout, [msg |-> "Pipeline failed", e |-> exc])
    /\ propagated' = Reraise(exc)
    /\ pc' = "raised"
    /\ UNCHANGED << file, ld, df, wf, features_df, model, raw_scores, scores, dirs,
                    files, exc, log, report >>

NoFiles == [n \in {} |-> << >>]

Init ==
    /\ pc = "load_data"
    /\ file \in Files
    /\ ld = NoLoad
    /\ df = EmptyFrame
    /\ wf = << >>
    /\ features_df = EmptyFrame
    /\ model = Unfitted
    /\ raw_scores = << >>
    /\ scores = << >>
    /\ dirs = {}
    /\ files = NoFiles
    /\ stdout = << >>
    /\ exc = "None"
    /\ propagated = "None"
    /\ log = << >>
    /\ report = NoReport

Next ==
    \/ LoadData
    \/ GenerateFeatures
    \/ TrainModel
    \/ GenerateScores
    \/ MakeDirs
    \/ WriteCsv
    \/ GenerateAnalysis
    \/ PrintCompleted
    \/ ExceptHandler

Spec == Init /\ [][Next]_vars

(***************************************************************************)
(* SpecFeat: generate_features (main.py) and generate_all_features         *)
(* (features.py) applied to a transaction table with the columns user,     *)
(* type, block_timestamp, amount_usd and, for some rows, actionData.       *)
(***************************************************************************)
FeatTypes == {<<"Deposit">>, <<"borrow", "deposit">>, <<"redeem", "underlying">>}

FeatAmounts ==
    {[amount_usd |-> IntV(1)],
     [amount_usd |-> IntV(2), actionData |-> DictV([amount |-> 2, assetPriceUSD |-> 3])],
     [amount_usd |-> IntV(1), actionData |-> DictV([note |-> 1])]}

FeatTx ==
    {[user |-> StrV(w), type |-> TextV(ty), block_timestamp |-> IntV(ts)] @@ a :
        w \in {"w1", "w2"}, ty \in FeatTypes, ts \in {1, 3}, a \in FeatAmounts}

FeatFrames == {DataFrame(data) : data \in UNION {[1..n -> FeatTx] : n \in 0..MaxTx}}

InitFeat ==
    /\ pc = "feat_input"
    /\ df \in FeatFrames
    /\ file = [exists |-> FALSE, lines |-> << >>]
    /\ ld = NoLoad
    /\ wf = << >>
    /\ features_df = EmptyFrame
    /\ model = Unfitted
    /\ raw_scores = << >>
    /\ scores = << >>
    /\ dirs = {}
    /\ files = NoFiles
    /\ stdout = << >>
    /\ exc = "None"
    /\ propagated = "None"
    /\ log = << >>
    /\ report = NoReport

\* main.py generate_features on the table
MainGenerateFeatures ==
    /\ pc = "feat_input"
    /\ LET r == generate_features(df) IN
       /\ wf' = r.wf
       /\ features_df' = r.features_df
       /\ propagated' = r.exc
    /\ pc' = "main_features"
    /\ UNCHANGED << file, ld, df, model, raw_scores, scores, dirs, files, stdout,
                    exc, log, report >>

\* features.py generate_all_features on the table
LibGenerateAllFeatures ==
    /\ pc = "feat_input"
    /\ LET r == generate_all_features(df) IN
       /\ wf' = r.wf
       /\ features_df' = r.features_df
       /\ propagated' = r.exc
    /\ pc' = "lib_features"
    /\ UNCHANGED << file, ld, df, model, raw_scores, scores, dirs, files, stdout,
                    exc, log, report >>

NextFeat ==
    \/ MainGenerateFeatures
    \/ LibGenerateAllFeatures

SpecFeat == InitFeat /\ [][NextFeat]_vars

(***************************************************************************)
(* SpecScore: generate_scores (main.py), predict_scores (model.py) and     *)
(* generate_analysis_report (analysis.py) applied to the raw scores of a   *)
(* batch of wallets.                                                       *)
(***************************************************************************)
InitScore ==
    /\ pc = "score_input"
    /\ raw_scores \in UNION {[1..n -> RawScores] : n \in 1..MaxWallets}
    /\ file = [exists |-> FALSE, lines |-> << >>]
    /\ ld = NoLoad
    /\ df = EmptyFrame
    /\ wf = << >>
    /\ features_df = EmptyFrame
    /\ model = Unfitted
    /\ scores = << >>
    /\ dirs = {"src/outputs"}
    /\ files = NoFiles
    /\ stdout = << >>
    /\ exc = "None"
    /\ propagated = "None"
    /\ log = << >>
    /\ report = NoReport

\* main.py lines 168-171
MainGenerateScores ==
    /\ pc = "score_input"
    /\ scores' = generate_scores(raw_scores)
    /\ pc' = "main_scores"
    /\ UNCHANGED << file, ld, df, wf, features_df, model, raw_scores, dirs, files,
                    stdout, exc, propagated, log, report >>

\* model.py lines 33-39
LibPredictScores ==
    /\ pc = "score_input"
    /\ scores' = predict_scores(raw_scores)
    /\ pc' = "lib_scores"
    /\ UNCHANGED << file, ld, df, wf, features_df, model, raw_scores, dirs, files,
                    stdout, exc, propagated, log, report >>

\* analysis.py generate_analysis_report on the scored wallets
LibGenerateAnalysisReport ==
    /\ pc \in {"main_scores", "lib_scores"}
    /\ ~report.done
    /\ report' = generate_analysis_report(scores)
    /\ files' = Write(Write(files, "score_distribution.png", << >>), "analysis.md", << >>)
    /\ UNCHANGED << pc, file, ld, df, wf, features_df, model, raw_scores, scores, dirs,
                    stdout, exc, propagated, log >>

NextScore ==
    \/ MainGenerateScores
    \/ LibPredictScores
    \/ LibGenerateAnalysisReport

SpecScore == InitScore /\ [][NextScore]_vars

(***************************************************************************)
(* SpecAll: every entry point: main() on a file, and the feature           *)
(* generators on a table.                                                  *)
(***************************************************************************)
InitAll == Init \/ InitFeat

NextAll ==
    \/ Next
    \/ NextFeat

SpecAll == InitAll /\ [][NextAll]_vars

(***************************************************************************)
(* The claims.                                                             *)
(***************************************************************************)
InSeq(s, x) == \E i \in 1..Len(s) : s[i] = x

Scored == pc \in {"main_scores", "lib_scores"}

InRange(x) == IsNumber(x) /\ Leq(IntV(0), x) /\ Leq(x, IntV(1000))

\* C1: for every non-empty batch and every vector of raw scores, also when
\* all wallets get the same raw score, every credit score produced by
\* generate_scores and by predict_scores is a defined number in [0, 1000].
C1_ScoresDefinedInRange ==
    Scored => \A i \in 1..Len(scores) : InRange(scores[i])

\* the score of wallet a is 1000 * (raw(a) - min) / (max - min), 0 at the
\* minimum and 1000 at the maximum, and the scores are ordered as the raw scores
Rescaled ==
    LET mn == SeqMin(raw_scores)
        mx == SeqMax(raw_scores)
    IN  \A a \in 1..Len(raw_scores) :
          /\ IsNumber(scores[a])
          /\ Num(scores[a]) * (mx - mn) = 1000 * (raw_scores[a] - mn) * Den(scores[a])
          /\ raw_scores[a] = mn => Num(scores[a]) = 0
          /\ raw_scores[a] = mx => Num(scores[a]) = 1000 * Den(scores[a])
          /\ \A b \in 1..Len(raw_scores) :
               raw_scores[a] <= raw_scores[b]
                 => IsNumber(scores[b]) /\ Leq(scores[a], scores[b])

StageOrder == <<"load_data", "generate_features", "train_model", "generate_scores",
                "makedirs", "to_csv", "generate_analysis", "print_completed">>

Written(name) == name \in DOMAIN files

\* C3: the stages run in the order load -> features -> fit -> scores ->
\* CSV -> report, each at most once and none before its predecessor has
\* returned; wallet_scores.csv is written only after the whole batch was
\* scored, the plot and the report only after the CSV and after the output
\* directory was created.
C3_StageOrder ==
    /\ Len(log) <= Len(StageOrder)
    /\ \A i \in 1..Len(log) : log[i] = StageOrder[i]
    /\ Written("wallet_scores.csv")
         => /\ InSeq(log, "generate_scores")
            /\ Len(scores) = Len(features_df.rows)
            /\ "src/outputs" \in dirs
    /\ Written("score_distribution.png") \/ Written("analysis.md")
         => /\ InSeq(log, "to_csv")
            /\ Written("wallet_scores.csv")
            /\ Len(files["wallet_scores.csv"]) = Len(features_df.rows)
            /\ "src/outputs" \in dirs

C3_Witness ==
    /\ pc = "done"
    /\ Len(log) = Len(StageOrder)
    /\ Written("wallet_scores.csv") /\ Written("analysis.md")
    /\ Len(scores) = 2

\* the wallets of the table generate_features / generate_all_features read
FeatWallet(i) == wf[i].wallet
FeatKeys(i) == DOMAIN wf[i].result.features

\* every actionData of the wallet is a dictionary with an amount
AmountsOk(w) ==
    /\ "actionData" \in df.columns
    /\ \A i \in 1..Len(df.rows) :
         df.rows[i]["user"] = StrV(w)
           => /\ df.rows[i]["actionData"].t = "dict"
              /\ "amount" \in DOMAIN df.rows[i]["actionData"].v

VolumeKeys == {"total_usd_volume", "avg_usd_amount", "max_usd_amount", "borrow_ratio"}

\* C4 as stated: any two wallets of a batch get dictionaries with identical
\* key sets from calculate_wallet_features, in main.py and in features.py.
C4_SameKeys ==
    pc \in {"main_features", "lib_features"}
      => \A i, j \in 1..Len(wf) :
           wf[i].result.ok /\ wf[j].result.ok => FeatKeys(i) = FeatKeys(j)

\* C4 as amended: features.py gives every wallet the same keys; main.py
\* gives the same keys to any two wallets whose amounts both convert or both
\* fail to, a wallet whose amounts fail to convert has none of the volume
\* keys, and every row of the feature table has all of the table's columns.
C4_SameKeysPerAmounts ==
    /\ pc = "lib_features"
         => \A i, j \in 1..Len(wf) : FeatKeys(i) = FeatKeys(j)
    /\ pc = "main_features"
         => \A i, j \in 1..Len(wf) :
              /\ AmountsOk(FeatWallet(i)) = AmountsOk(FeatWallet(j))
                   => FeatKeys(i) = FeatKeys(j)
              /\ AmountsOk(FeatWallet(i)) => VolumeKeys \subseteq FeatKeys(i)
              /\ ~AmountsOk(FeatWallet(i)) => VolumeKeys \cap FeatKeys(i) = {}
    /\ pc \in {"main_features", "lib_features"}
         => \A i \in 1..Len(features_df.rows) :
              DOMAIN features_df.rows[i] = features_df.columns

C4_Witness ==
    /\ pc = "main_features"
    /\ Len(wf) = 2
    /\ AmountsOk("w1") /\ AmountsOk("w2")
    /\ wf[1].result.features["deposit_count"] # wf[2].result.features["deposit_count"]

\* a run that raised never completed, printed the failure and raised the
\* exception it caught
FailureReported ==
    /\ pc \in {"except", "raised"} => exc # "None"
    /\ pc = "raised"
         => /\ propagated = exc
            /\ stdout = <<[msg |-> "Pipeline failed", e |-> exc]>>
    /\ pc \notin {"except", "raised"} => exc = "None" /\ propagated = "None"
    /\ InSeq(stdout, [msg |-> "Pipeline completed!", e |-> "None"])
         => pc = "done" /\ exc = "None" /\ propagated = "None"
    /\ Written("wallet_scores.csv") => InSeq(log, "generate_scores")

\* once a statement has raised, the only step left is the except clause
NothingAfterRaise ==
    pc \in {"except", "raised"}
      => /\ pc' = "raised"
         /\ log' = log /\ dirs' = dirs /\ files' = files /\ exc' = exc
         /\ df' = df /\ features_df' = features_df /\ model' = model /\ scores' = scores

\* C6: when a stage of main() raises, no later stage runs, the failure is
\* printed and the same exception is raised to the caller; a failed run
\* never prints 'Pipeline completed', and wallet_scores.csv is never written
\* unless the whole batch was scored.
C6_FailureStops == []FailureReported /\ [][NothingAfterRaise]_vars

\* the report stage failed after the CSV was written
C6_Witness ==
    /\ pc = "raised"
    /\ propagated = "OSError"
    /\ InSeq(log, "to_csv")
    /\ ~InSeq(log, "generate_analysis")

ValidLines(lines) == SelectSeq(lines, LAMBDA l : l.k = "obj")

\* C7: a missing file raises FileNotFoundError and is never read; a file
\* that is not one JSON document is parsed line by line, every valid line
\* kept in file order, every invalid line skipped, no JSONDecodeError
\* raised; a file that is one JSON document never enters the fallback.
C7_LoadData ==
    pc # "load_data" =>
      /\ ~file.exists => ld.exc = "FileNotFoundError" /\ ld.reads = 0
      /\ file.exists /\ ~JsonLoad(file.lines).ok
           => /\ ld.fallback
              /\ ld.exc # "JSONDecodeError"
              /\ Len(ld.data) = Len(ValidLines(file.lines))
              /\ \A i \in 1..Len(ld.data) : ld.data[i] = ValidLines(file.lines)[i].v
      /\ file.exists /\ JsonLoad(file.lines).ok => ~ld.fallback

\* a valid line after an invalid one, kept though a line before it was skipped
C7_Witness ==
    /\ pc # "load_data"
    /\ ld.fallback
    /\ Len(file.lines) = 3
    /\ Len(ld.data) = 2
    /\ file.lines[1].k # "obj"

\* C8: every wallet whose credit score lies in [0, 1000] is assigned to
\* exactly one of the ten ranges, the one whose label contains its score,
\* so the counts of the table sum to the number of scored wallets.
C8_EveryScoreInItsRange ==
    report.done =>
      /\ \A i \in 1..Len(scores) :
           InRange(scores[i])
             => /\ report.score_range[i] # NaN
                /\ Leq(IntV(report.score_range[i].lo), scores[i])
                /\ \/ Less(scores[i], IntV(report.score_range[i].lo + 100))
                   \/ Num(scores[i]) = 1000 * Den(scores[i])
      /\ SeqSum(report.stats) = Cardinality({i \in 1..Len(scores) : InRange(scores[i])})

\* the column of the table that identifies the wallet
WalletCol == IF "userWallet" \in df.columns THEN "userWallet" ELSE "user"

InputWallets ==
    IF WalletCol \in df.columns
    THEN {w \in {"w1", "w2", "w3"} : \E i \in 1..Len(df.rows) : df.rows[i][WalletCol] = StrV(w)}
    ELSE {}

RowsOf(rows, w) == Cardinality({i \in 1..Len(rows) : rows[i]["wallet"] = StrV(w)})

FeaturesReturned ==
    \/ InSeq(log, "generate_features")
    \/ pc \in {"main_features", "lib_features"} /\ propagated = "None"

CsvWritten == InSeq(log, "to_csv")

Processed(w) == \E i \in 1..Len(wf) : wf[i].wallet = w /\ wf[i].result.ok

\* C9 as stated: each distinct wallet of the input has exactly one row in
\* the feature table and in wallet_scores.csv, and no other wallet has a
\* row, even when processing of some wallet's transactions raises.
C9_EveryWalletOnce ==
    /\ FeaturesReturned
         => \A w \in {"w1", "w2", "w3"} :
              RowsOf(features_df.rows, w) = IF w \in InputWallets THEN 1 ELSE 0
    /\ CsvWritten
         => \A w \in {"w1", "w2", "w3"} :
              RowsOf(files["wallet_scores.csv"], w) = IF w \in InputWallets THEN 1 ELSE 0

\* C9 as amended: each distinct wallet of the input is processed once; it
\* has exactly one row in the feature table and in wallet_scores.csv when
\* calculate_wallet_features returned for it, and none when it raised; no
\* other wallet has a row.
C9_EveryProcessedWalletOnce ==
    /\ FeaturesReturned
         => \A w \in {"w1", "w2", "w3"} :
              /\ Cardinality({i \in 1..Len(wf) : wf[i].wallet = w})
                   = IF w \in InputWallets THEN 1 ELSE 0
              /\ RowsOf(features_df.rows, w) = IF Processed(w) THEN 1 ELSE 0
    /\ CsvWritten
         => \A w \in {"w1", "w2", "w3"} :
              RowsOf(files["wallet_scores.csv"], w) = IF Processed(w) THEN 1 ELSE 0

\* one wallet was skipped, the other is in the CSV
C9_Witness ==
    /\ CsvWritten
    /\ Len(wf) = 2
    /\ \E i \in 1..2 : ~wf[i].result.ok
    /\ Len(files["wallet_scores.csv"]) = 1

FeatTxs(i) == Group(df, "user", wf[i].wallet)

\* C10: each transaction is counted under at most one of the five actions,
\* so no count and not their sum exceeds total_txs; in features.py the
\* transactions counted as deposits / borrows are the ones whose amounts are
\* summed into total_deposit_value / total_borrow_value.
C10_CountsByType ==
    pc \in {"main_features", "lib_features"} =>
      \A i \in 1..Len(wf) :
        wf[i].result.ok =>
          LET f == wf[i].result.features IN
          /\ \A k \in CountKeys : f[k].v <= f["total_txs"].v
          /\ f["deposit_count"].v + f["borrow_count"].v + f["repay_count"].v
               + f["redeem_count"].v + f["liquidation_count"].v <= f["total_txs"].v
          /\ pc = "lib_features"
               => /\ f["deposit_count"].v = Cardinality(TypeRows(FeatTxs(i), "deposit"))
                  /\ f["borrow_count"].v = Cardinality(TypeRows(FeatTxs(i), "borrow"))
                  /\ f["total_deposit_value"].v
                       = AmountSum(FeatTxs(i), CountedRows(FeatTxs(i), "deposit"))
                  /\ f["total_borrow_value"].v
                       = AmountSum(FeatTxs(i), CountedRows(FeatTxs(i), "borrow"))

====
